---- MODULE Spec2Model ----
(***************************************************************************)
(* Scheduled ingestion pipeline of the crypto scraper backend:             *)
(*   CryptoCronService (services/cryptoCronService.js; CronService in      *)
(*   services/cronService.js is the same code over WebScraper) and         *)
(*   CryptoScraper (services/cryptoScraper.js).                            *)
(* A call of an async function is a run: it advances one step at each      *)
(* await (the outbound fetch and every store operation), so runs           *)
(* interleave exactly where the event loop lets them.                      *)
(***************************************************************************)
EXTENDS Integers, Sequences, FiniteSets, Bags, TLC

(* ------------------------------ bounds -------------------------------- *)
MaxHandles == 4      \* cron jobs created over the life of one scheduler
MaxRuns == 2         \* async runs (ticks, manual triggers) in flight at once
MaxStore == 3        \* documents in the Crypto collection
MaxTime == 10        \* last value of the clock, in minutes

(* -------------------------- program constants ------------------------- *)
FreshnessMinutes == 5          \* 5 * 60 * 1000 ms
CleanupHours == 24             \* cleanupOldData(24) of the cleanup job
CleanupDays == 7               \* cleanupOldArticles(7) of the cleanup job
CleanupSchedule == "0 3 * * *"
DefaultSchedule == "0 * * * *"

(* ------------------------------ inputs -------------------------------- *)
ValidSchedules == {DefaultSchedule, "*/30 * * * *"}
InvalidSchedules == {"not a cron"}
Schedules == ValidSchedules \cup InvalidSchedules
FetchErrors == {"timeout of 15000ms exceeded"}
ClockSteps == {5}
Variants == {"crypto", "article"}
Coin(sym, name, price) == [symbol |-> sym, name |-> name, current_price |-> price]
Batches == { <<>>, <<Coin("btc", "Bitcoin", 100)>> }
Responses ==
  [ok : {FALSE}, cause : FetchErrors, array : {FALSE}, data : {<<>>}]
    \cup [ok : {TRUE}, cause : {""}, array : {TRUE}, data : Batches]

VARIABLES
  isRunning,   \* this.isRunning
  jobs,        \* this.jobs: the Map, as its entries in insertion order
  handles,     \* every task cron.schedule has returned to this scheduler
  inflight,    \* the async calls that have not settled yet (a bag: they are anonymous)
  store,       \* the Crypto collection, in insertion order
  now,         \* Date.now(), in minutes
  variant,     \* which pipeline is deployed: "crypto" (CryptoScraper) or "article" (WebScraper)
  last         \* the latest outcome: a call of the API returned, or an async call settled

vars == <<isRunning, jobs, handles, inflight, store, now, variant, last>>
sched == <<isRunning, jobs, handles>>

(* ------------------------------ the Map ------------------------------- *)
MapHas(m, k) == \E i \in DOMAIN m : m[i].name = k
MapGet(m, k) == m[CHOOSE i \in DOMAIN m : m[i].name = k].job
\* a map whose set() adds an entry even when the key is present
MapSetAppends(m, k, v) == Append(m, [name |-> k, job |-> v])

MapSet(m, k, v) ==
  IF MapHas(m, k)
  THEN [i \in DOMAIN m |-> IF m[i].name = k THEN [name |-> k, job |-> v] ELSE m[i]]
  ELSE Append(m, [name |-> k, job |-> v])
MapKeys(m) == [i \in DOMAIN m |-> m[i].name]
MapValues(m) == {m[i].job : i \in DOMAIN m}

(* getStatus() *)
getStatus ==
  [isRunning |-> isRunning, activeJobs |-> MapKeys(jobs), jobCount |-> Len(jobs)]

(* ------------------------------ node-cron ----------------------------- *)
\* cron.schedule validates the expression and throws on a bad one
IsValidCron(s) == s \in ValidSchedules
\* cron.schedule(expr, fn, {scheduled: false}) followed by task.start()
ScheduledTask(expr, kind) == [schedule |-> expr, kind |-> kind, active |-> FALSE]
TaskStart(t) == [t EXCEPT !.active = TRUE]
TaskStop(t) == [t EXCEPT !.active = FALSE]

(* ----------------------------- outcomes ------------------------------- *)
ZeroResult == [saved |-> 0, updated |-> 0, skipped |-> 0, total |-> 0]
NoValue == [success |-> FALSE, message |-> <<>>, result |-> ZeroResult]
Resolved(v) == [kind |-> "resolved", defined |-> TRUE, value |-> v, error |-> <<>>]
ResolvedUndefined == [kind |-> "resolved", defined |-> FALSE, value |-> NoValue, error |-> <<>>]
Rejected(e) == [kind |-> "rejected", defined |-> FALSE, value |-> NoValue, error |-> e]
Pending == [kind |-> "pending", defined |-> FALSE, value |-> NoValue, error |-> <<>>]
NoSweep == [success |-> FALSE, modifiedCount |-> 0, ran |-> FALSE, cutoff |-> 0]

NewRun ==
  [pc |-> "fetch", origin |-> "trigger", data |-> <<>>, i |-> 0, doc |-> 0, cutoff |-> 0,
   saved |-> 0, updated |-> 0, skipped |-> 0, fetch |-> "none", saveCalls |-> 0,
   found |-> 0, wrote |-> 0]
Nothing ==
  [op |-> "none", arg |-> "", wasRunning |-> FALSE, threw |-> FALSE,
   origin |-> "none", fetch |-> "none", saveCalls |-> 0, found |-> 0, wrote |-> 0,
   ps |-> Pending, ret |-> Pending, log |-> "none", sweep |-> NoSweep, status |-> 0,
   data |-> <<>>]

(* ========================= CryptoCronService ========================== *)
Called(op, arg, threw) ==
  [Nothing EXCEPT !.op = op, !.arg = arg, !.wasRunning = isRunning, !.threw = threw]

\* start(): the two tasks created by cron.schedule, in creation order
NewJobs(schedule) ==
  << ScheduledTask(schedule, "scraping"), ScheduledTask(CleanupSchedule, "cleanup") >>

\* a start() that forgets cleanupJob.start()
StartJobsOnlyFirst(ts) == [i \in DOMAIN ts |-> IF i = 1 THEN TaskStart(ts[i]) ELSE ts[i]]

\* start(): scrapingJob.start(); cleanupJob.start()
StartJobs(ts) == [i \in DOMAIN ts |-> TaskStart(ts[i])]

\* a start() without its early return
StartNeverNoop == FALSE

\* start(): `if (this.isRunning) return`
StartIsNoop == isRunning

start(schedule) ==
  /\ UNCHANGED <<inflight, store, now, variant>>
  /\ IF StartIsNoop
     THEN /\ last' = Called("start", schedule, FALSE)
          /\ UNCHANGED sched
     ELSE IF ~IsValidCron(schedule)
     THEN /\ last' = Called("start", schedule, TRUE)
          /\ UNCHANGED sched
     ELSE /\ Len(handles) + 2 <= MaxHandles
          /\ last' = Called("start", schedule, FALSE)
          /\ handles' = handles \o StartJobs(NewJobs(schedule))
          /\ jobs' = MapSet(MapSet(jobs, "scraping", Len(handles) + 1),
                            "cleanup", Len(handles) + 2)
          /\ isRunning' = TRUE

\* a stop() that halts the scraping job only
StopScrapingOnly(hs, m) ==
  [h \in DOMAIN hs |-> IF MapHas(m, "scraping") /\ h = MapGet(m, "scraping")
                        THEN TaskStop(hs[h]) ELSE hs[h]]

\* stop(): this.jobs.forEach(job => job.stop())
StopAll(hs, m) ==
  [h \in DOMAIN hs |-> IF h \in MapValues(m) THEN TaskStop(hs[h]) ELSE hs[h]]

\* a stop() that flips the flag instead of testing it
stopToggles ==
  /\ UNCHANGED <<inflight, store, now, variant>>
  /\ last' = Called("stop", "", FALSE)
  /\ handles' = StopAll(handles, jobs)
  /\ jobs' = <<>>
  /\ isRunning' = ~isRunning

\* a stop() that abandons the runs in flight
stopCancels ==
  /\ inflight' = EmptyBag
  /\ UNCHANGED <<store, now, variant>>
  /\ last' = Called("stop", "", FALSE)
  /\ IF ~isRunning
     THEN UNCHANGED sched
     ELSE /\ handles' = StopAll(handles, jobs)
          /\ jobs' = <<>>
          /\ isRunning' = FALSE

stop ==
  /\ UNCHANGED <<inflight, store, now, variant>>
  /\ last' = Called("stop", "", FALSE)
  /\ IF ~isRunning
     THEN UNCHANGED sched
     ELSE /\ handles' = StopAll(handles, jobs)
          /\ jobs' = <<>>
          /\ isRunning' = FALSE

\* an updateSchedule() without its early return
UpdateNeverNoop == FALSE

\* updateSchedule(): `if (!this.isRunning) return`
UpdateIsNoop == ~isRunning

\* an updateSchedule() that leaves the replaced job running
KeepCurrent(hs, m) == hs

\* updateSchedule(): `if (currentJob) currentJob.stop()`
StopCurrent(hs, m) ==
  IF MapHas(m, "scraping")
  THEN [hs EXCEPT ![MapGet(m, "scraping")] = TaskStop(@)]
  ELSE hs

updateSchedule(newSchedule) ==
  /\ UNCHANGED <<inflight, store, now, variant>>
  /\ IF UpdateIsNoop
     THEN /\ last' = Called("updateSchedule", newSchedule, FALSE)
          /\ UNCHANGED sched
     ELSE IF ~IsValidCron(newSchedule)
     THEN /\ last' = Called("updateSchedule", newSchedule, TRUE)
          /\ handles' = StopCurrent(handles, jobs)
          /\ UNCHANGED <<isRunning, jobs>>
     ELSE /\ Len(handles) + 1 <= MaxHandles
          /\ last' = Called("updateSchedule", newSchedule, FALSE)
          /\ handles' = Append(StopCurrent(handles, jobs),
                               TaskStart(ScheduledTask(newSchedule, "scraping")))
          /\ jobs' = MapSet(jobs, "scraping", Len(handles) + 1)
          /\ UNCHANGED isRunning

(* ============================ CryptoScraper =========================== *)
\* String.prototype.toUpperCase on the symbols of the feed
toUpperCase(sym) ==
  CASE sym = "btc" -> "BTC"
    [] sym = "eth" -> "ETH"
    [] sym = "sol" -> "SOL"
    [] OTHER -> sym

\* scrapeCryptoData(): the element mapping of response.data.map
MapCoin(coin, t) ==
  [symbol |-> toUpperCase(coin.symbol), name |-> coin.name, price |-> coin.current_price,
   timestamp |-> t, isActive |-> TRUE]

\* an element of the payload without a symbol: coin.symbol is undefined, and
\* undefined.toUpperCase() throws a TypeError
Undefined == "undefined"
MapThrows(coin) == coin.symbol = Undefined
NotAFunction == "response.data.map is not a function"
CannotRead == "Cannot read properties of undefined (reading 'toUpperCase')"

\* a mapping that leaves out the elements it cannot map
scrapeCryptoDataPerElement(resp, t) ==
  IF ~resp.ok
  THEN [kind |-> "rejected", data |-> <<>>,
        error |-> <<"Crypto scraping failed: ", resp.cause>>]
  ELSE IF ~resp.array
  THEN [kind |-> "rejected", data |-> <<>>,
        error |-> <<"Crypto scraping failed: ", NotAFunction>>]
  ELSE LET good == SelectSeq(resp.data, LAMBDA coin : ~MapThrows(coin))
       IN [kind |-> "resolved", data |-> [k \in DOMAIN good |-> MapCoin(good[k], t)],
           error |-> <<>>]

\* scrapeCryptoData(): resolves the mapped array, or rethrows a wrapped error: the
\* request failed, the payload has no map(), or the mapping of an element threw
scrapeCryptoData(resp, t) ==
  IF ~resp.ok
  THEN [kind |-> "rejected", data |-> <<>>,
        error |-> <<"Crypto scraping failed: ", resp.cause>>]
  ELSE IF ~resp.array
  THEN [kind |-> "rejected", data |-> <<>>,
        error |-> <<"Crypto scraping failed: ", NotAFunction>>]
  ELSE IF \E k \in DOMAIN resp.data : MapThrows(resp.data[k])
  THEN [kind |-> "rejected", data |-> <<>>,
        error |-> <<"Crypto scraping failed: ", CannotRead>>]
  ELSE [kind |-> "resolved", data |-> [k \in DOMAIN resp.data |-> MapCoin(resp.data[k], t)],
        error |-> <<>>]

\* performScraping(): the three objects it resolves with
NoDataFoundAsSuccess ==
  [success |-> TRUE, message |-> <<"No crypto data found during scraping">>,
   result |-> ZeroResult]
NoDataFound ==
  [success |-> FALSE, message |-> <<"No crypto data found during scraping">>,
   result |-> ZeroResult]
ScrapingCompletedIfPersisted(saveResult) ==
  [success |-> saveResult.saved + saveResult.updated > 0,
   message |-> <<"Crypto scraping completed successfully">>,
   result |-> saveResult]
ScrapingCompleted(saveResult) ==
  [success |-> TRUE, message |-> <<"Crypto scraping completed successfully">>,
   result |-> saveResult]
ScrapingFailed(error) ==
  [success |-> FALSE, message |-> <<"Crypto scraping failed: ">> \o error,
   result |-> ZeroResult]

\* a performScraping() that lets the rejection through
PerformRethrows(error) == Rejected(error)

\* performScraping(): its catch turns a rejection into a reported outcome
PerformCatch(error) == Resolved(ScrapingFailed(error))

\* a findOne that never finds a stored record
MatchesNever(st, sym, cutoff) == {}

\* a findOne by symbol alone
MatchesAnyAge(st, sym, cutoff) == {d \in DOMAIN st : st[d].symbol = sym}

\* saveCryptoData(): the findOne filter {symbol, timestamp: {$gte: now - 5 min}}
Matches(st, sym, cutoff) ==
  {d \in DOMAIN st : st[d].symbol = sym /\ st[d].timestamp >= cutoff}
FreshCutoff(t) == t - FreshnessMinutes

\* saveArticles(): the findOne filter {link}; the link is the key of an article,
\* as the symbol is the key of an asset
KeyOf(doc) == doc.symbol
MatchesLink(st, link) == {d \in DOMAIN st : KeyOf(st[d]) = link}

\* a findOne that ignores its filter
LookupAny(st, rec, cutoff) == DOMAIN st

\* the findOne of the deployed pipeline
Lookup(st, rec, cutoff) ==
  IF variant = "article" THEN MatchesLink(st, KeyOf(rec))
                         ELSE Matches(st, rec.symbol, cutoff)

\* an update that replaces the found entry by the incoming record
UpdateDocReplaces(doc, crypto) == crypto

\* an update that leaves the active flag of the found entry as it is
UpdateDocKeepsFlag(doc, crypto) ==
  [doc EXCEPT !.price = crypto.price, !.timestamp = crypto.timestamp]

\* an update that saves the found entry without the new price
UpdateDocKeepsPrice(doc, crypto) ==
  [doc EXCEPT !.timestamp = crypto.timestamp, !.isActive = TRUE]

\* saveCryptoData(): the assignments to existingCrypto, then save()
UpdateDoc(doc, crypto) ==
  [doc EXCEPT !.price = crypto.price, !.timestamp = crypto.timestamp,
              !.isActive = TRUE]
\* saveCryptoData(): new Crypto(crypto).save()
NewDoc(crypto) == crypto

\* schema option timestamps: true: every write of a document stamps its updatedAt
Saved(doc, t) ==
  [f \in DOMAIN doc \cup {"updatedAt"} |-> IF f = "updatedAt" THEN t ELSE doc[f]]

\* saveCryptoData(): the counts object it returns
SaveResultOfPersisted(run) ==
  [saved |-> run.saved, updated |-> run.updated, skipped |-> run.skipped,
   total |-> run.saved + run.updated]
SaveResult(run) ==
  [saved |-> run.saved, updated |-> run.updated, skipped |-> run.skipped,
   total |-> Len(run.data)]

\* cleanupOldData(hoursOld): cutoffDate and the updateMany filter and patch
SweepCutoff(t, hoursOld) == t - hoursOld * 60
\* cleanupOldArticles(daysOld): cutoffDate
SweepCutoffDays(t, daysOld) == t - daysOld * 24 * 60
\* the cutoff of the cleanup the deployed pipeline runs: cleanupOldData(24) or
\* cleanupOldArticles(7)
CleanupCutoff(t) ==
  IF variant = "article" THEN SweepCutoffDays(t, CleanupDays)
                         ELSE SweepCutoff(t, CleanupHours)
\* a filter that also takes the records captured at the cutoff
ExpiredInclusive(st, cutoff) == {d \in DOMAIN st : st[d].timestamp <= cutoff}
Expired(st, cutoff) == {d \in DOMAIN st : st[d].timestamp < cutoff}
\* an updateMany with an empty filter
SweepEvery(st, cutoff, t) ==
  [d \in DOMAIN st |-> Saved([st[d] EXCEPT !.isActive = FALSE], t)]

\* updateMany(filter, {isActive: false}): with timestamps: true the patch of every
\* matched document is {isActive: false, updatedAt: new Date()}
Sweep(st, cutoff, t) ==
  [d \in DOMAIN st |-> IF d \in Expired(st, cutoff)
                        THEN Saved([st[d] EXCEPT !.isActive = FALSE], t) ELSE st[d]]
\* result.modifiedCount: the documents the patch changed. The stamp of updatedAt is
\* taken in milliseconds and differs from the stored one, so these are all the
\* matched documents, the inactive ones included.
ModifiedCount(st, cutoff) == Cardinality(Expired(st, cutoff))

(* ------------------- the two call paths into the scraper -------------- *)
\* a triggerScraping() that drops the outcome, as the scheduled callback does
TriggerSwallows(o) == ResolvedUndefined

\* triggerScraping(): `return result` / `throw error`
TriggerSettle(o) == o

\* a scheduled callback that throws, outside its try, on an unsuccessful result
TickRethrows(o) ==
  IF o.defined /\ ~o.value.success THEN Rejected(o.value.message) ELSE ResolvedUndefined

\* the scheduled callback: try { await ... } catch { log }; it returns nothing
TickSettle(o) == ResolvedUndefined
\* which of the two console lines the wrapper prints
WrapperLog(o) == IF o.kind = "rejected" THEN "failed" ELSE "completed"

\* what is left of a call once it has settled
Settled(run, o) ==
  [Nothing EXCEPT
     !.op = "settled", !.origin = run.origin, !.fetch = run.fetch,
     !.saveCalls = run.saveCalls, !.found = run.found, !.wrote = run.wrote, !.ps = o,
     !.ret = IF run.origin = "trigger" THEN TriggerSettle(o) ELSE TickSettle(o),
     !.log = WrapperLog(o)]

InFlight == BagToSet(inflight)
Resume(run, new) == (inflight (-) SetToBag({run})) (+) SetToBag({new})
Finish(run) == inflight (-) SetToBag({run})

\* a call of an async function: it runs synchronously up to its first await
Begin(origin, pc) ==
  /\ BagCardinality(inflight) < MaxRuns
  /\ inflight' = inflight (+) SetToBag({[NewRun EXCEPT !.origin = origin, !.pc = pc,
                         !.cutoff = CleanupCutoff(now)]})

\* a callback that returns at once while an earlier run is in flight
tickGuarded(h) ==
  /\ h \in DOMAIN handles
  /\ handles[h].active
  /\ inflight = EmptyBag
  /\ Begin(handles[h].kind, IF handles[h].kind = "scraping" THEN "fetch" ELSE "sweep")
  /\ UNCHANGED <<sched, store, now, variant, last>>

\* a timer of node-cron fires an active task: its callback starts
tick(h) ==
  /\ h \in DOMAIN handles
  /\ handles[h].active
  /\ Begin(handles[h].kind, IF handles[h].kind = "scraping" THEN "fetch" ELSE "sweep")
  /\ UNCHANGED <<sched, store, now, variant, last>>

\* a triggerScraping() that refuses to run while the scheduler is stopped
triggerOnlyWhenRunning ==
  /\ isRunning
  /\ Begin("trigger", "fetch")
  /\ UNCHANGED <<sched, store, now, variant, last>>

triggerScraping ==
  /\ Begin("trigger", "fetch")
  /\ UNCHANGED <<sched, store, now, variant, last>>

RECURSIVE ToInsert(_)
ToInsert(S) ==
  IF S = {} THEN 0
  ELSE LET run == CHOOSE q \in S : TRUE
       IN CopiesIn(run, inflight) * (Len(run.data) - run.i + 1) + ToInsert(S \ {run})

\* performScraping() up to its first store call: the fetch settles
FetchReturn(run, resp) ==
  /\ run \in InFlight
  /\ run.pc = "fetch"
  /\ Len(store) + ToInsert({q \in InFlight : q.pc \in {"find", "write"}}) + Len(resp.data)
       <= MaxStore
  /\ LET so == scrapeCryptoData(resp, now)
     IN IF so.kind = "rejected"
        THEN /\ inflight' = Finish(run)
             /\ last' = Settled([run EXCEPT !.fetch = "failed"], PerformCatch(so.error))
        ELSE IF Len(so.data) = 0
        THEN /\ inflight' = Finish(run)
             /\ last' = Settled([run EXCEPT !.fetch = "empty"], Resolved(NoDataFound))
        ELSE /\ inflight' = Resume(run,
                  [run EXCEPT !.pc = "find", !.fetch = "ok", !.data = so.data, !.i = 1,
                              !.cutoff = FreshCutoff(now), !.saveCalls = @ + 1])
             /\ UNCHANGED last
  /\ UNCHANGED <<sched, store, now, variant>>

\* a loop that steps over a record
NextRecordSkipsOne(run, new) ==
  IF new.i + 1 < Len(new.data)
  THEN /\ inflight' = Resume(run, [new EXCEPT !.pc = "find", !.i = @ + 2, !.doc = 0,
                                               !.cutoff = FreshCutoff(now)])
       /\ UNCHANGED last
  ELSE /\ inflight' = Finish(run)
       /\ last' = Settled(new, Resolved(ScrapingCompleted(SaveResult(new))))

\* a loop that returns at the first record it could not persist
NextRecordEndsOnSkip(run, new) ==
  IF new.i < Len(new.data) /\ new.skipped = run.skipped
  THEN /\ inflight' = Resume(run, [new EXCEPT !.pc = "find", !.i = @ + 1, !.doc = 0,
                                               !.cutoff = FreshCutoff(now)])
       /\ UNCHANGED last
  ELSE /\ inflight' = Finish(run)
       /\ last' = Settled(new, Resolved(ScrapingCompleted(SaveResult(new))))

\* saveCryptoData(): after record i, the next findOne or the return
NextRecord(run, new) ==
  IF new.i < Len(new.data)
  THEN /\ inflight' = Resume(run, [new EXCEPT !.pc = "find", !.i = @ + 1, !.doc = 0,
                                               !.cutoff = FreshCutoff(now)])
       /\ UNCHANGED last
  ELSE /\ inflight' = Finish(run)
       /\ last' = Settled(new, Resolved(ScrapingCompleted(SaveResult(new))))

\* saveCryptoData(): findOne settles
FindReturn(run, ok) ==
  /\ run \in InFlight
  /\ run.pc = "find"
  /\ LET m == Lookup(store, run.data[run.i], run.cutoff)
     IN IF ~ok
        THEN NextRecord(run, [run EXCEPT !.skipped = @ + 1])
        ELSE /\ \E d \in (IF m = {} THEN {0} ELSE m) :
                  inflight' = Resume(run, [run EXCEPT !.pc = "write", !.doc = d,
                                                       !.found = @ + 1])
             /\ UNCHANGED last
  /\ UNCHANGED <<sched, store, now, variant>>

\* a collection without the unique index
DuplicateKeyNever(st, rec) == FALSE

\* articleSchema: link is unique, so the insert of a link the collection holds is
\* refused (E11000); cryptoSchema has no unique index
DuplicateKey(st, rec) == variant = "article" /\ MatchesLink(st, KeyOf(rec)) # {}

\* saveCryptoData(): existingCrypto.save() or newCrypto.save() settles
WriteReturn(run, ok) ==
  /\ run \in InFlight
  /\ run.pc = "write"
  /\ ok => ~(run.doc = 0 /\ DuplicateKey(store, run.data[run.i]))
  /\ LET crypto == run.data[run.i]
     IN IF ~ok
        THEN /\ NextRecord(run, [run EXCEPT !.skipped = @ + 1])
             /\ UNCHANGED store
        ELSE IF run.doc = 0
        THEN /\ store' = Append(store, Saved(NewDoc(crypto), now))
             /\ NextRecord(run, [run EXCEPT !.saved = @ + 1, !.wrote = @ + 1])
        ELSE /\ store' = [store EXCEPT ![run.doc] = Saved(UpdateDoc(@, crypto), now)]
             /\ NextRecord(run, [run EXCEPT !.updated = @ + 1, !.wrote = @ + 1])
  /\ UNCHANGED <<sched, now, variant>>

\* a catch that reports the failed cleanup as done
CleanupFailedAsDone(cutoff) ==
  [success |-> TRUE, ran |-> TRUE, cutoff |-> cutoff, modifiedCount |-> 0]

\* cleanupOldData(): its catch returns {success: false, message, modifiedCount: 0}
CleanupFailed(cutoff) ==
  [success |-> FALSE, ran |-> TRUE, cutoff |-> cutoff, modifiedCount |-> 0]

\* cleanupOldData(24) of the cleanup callback: updateMany settles
SweepReturn(run, ok) ==
  /\ run \in InFlight
  /\ run.pc = "sweep"
  /\ inflight' = Finish(run)
  /\ last' = [Settled(run, Pending) EXCEPT
                !.ret = IF run.origin = "maintenance" THEN Resolved(NoValue) ELSE @,
                !.sweep =
                IF ok THEN [success |-> TRUE, ran |-> TRUE, cutoff |-> run.cutoff,
                            modifiedCount |-> ModifiedCount(store, run.cutoff)]
                      ELSE CleanupFailed(run.cutoff)]
  /\ store' = IF ok THEN Sweep(store, run.cutoff, now) ELSE store
  /\ UNCHANGED <<sched, now, variant>>

\* performMaintenance(): cleanupOldData(24), whose result it resolves with (kept in
\* last.sweep)
performMaintenance ==
  /\ Begin("maintenance", "sweep")
  /\ UNCHANGED <<sched, store, now, variant, last>>

\* a DELETE /:id that removes the document
deleteByIdRemoves(id) ==
  /\ id \in DOMAIN store
  /\ store' = [d \in 1..(Len(store) - 1) |-> IF d < id THEN store[d] ELSE store[d + 1]]
  /\ last' = [Called("delete", "", FALSE) EXCEPT !.status = 200]
  /\ UNCHANGED <<sched, inflight, now, variant>>

\* DELETE /:id: findByIdAndUpdate(id, {isActive: false}), then 200, 404 when there is
\* no such document, 500 when the store fails
deleteById(id) ==
  /\ \E ok \in BOOLEAN :
       /\ store' = IF ok /\ id \in DOMAIN store
                   THEN [store EXCEPT ![id] = Saved([@ EXCEPT !.isActive = FALSE], now)]
                   ELSE store
       /\ last' = [Called("delete", "", FALSE) EXCEPT
                     !.status = IF ~ok THEN 500 ELSE IF id \in DOMAIN store THEN 200 ELSE 404]
  /\ UNCHANGED <<sched, inflight, now, variant>>

\* the retention of the deployed pipeline, in minutes: 24 hours or 7 days
Retention == IF variant = "article" THEN CleanupDays * 24 * 60 ELSE CleanupHours * 60

\* the retention time passes
LongWait ==
  /\ now <= MaxTime
  /\ now' = now + Retention
  /\ UNCHANGED <<sched, inflight, store, variant, last>>

\* time passes
AdvanceClock(d) ==
  /\ now + d <= MaxTime
  /\ now' = now + d
  /\ UNCHANGED <<sched, inflight, store, variant, last>>

Init ==
  /\ isRunning = FALSE
  /\ jobs = <<>>
  /\ handles = <<>>
  /\ inflight = EmptyBag
  /\ store = <<>>
  /\ now = 0
  /\ variant = "crypto"
  /\ last = Nothing

Next ==
  \/ \E schedule \in Schedules : start(schedule)
  \/ stop
  \/ \E newSchedule \in Schedules : updateSchedule(newSchedule)
  \/ triggerScraping
  \/ \E h \in 1..MaxHandles : tick(h)
  \/ \E run \in InFlight, resp \in Responses : FetchReturn(run, resp)
  \/ \E run \in InFlight, ok \in BOOLEAN : FindReturn(run, ok)
  \/ \E run \in InFlight, ok \in BOOLEAN : WriteReturn(run, ok)
  \/ \E run \in InFlight, ok \in BOOLEAN : SweepReturn(run, ok)

Spec == Init /\ [][Next]_vars

\* ---- One save at a time, while time passes ----
\* The caller awaits each run before it starts the next; the clock advances between
\* and during the runs; the store answers or fails at every call.
StoreBatches ==
  { <<Coin("btc", "Bitcoin", 100)>>,
    <<Coin("btc", "Bitcoin BTC", 105)>>,
    <<Coin("eth", "Ethereum", 7), Coin("btc", "Bitcoin", 100)>>,
    <<Coin("eth", "Ethereum", 7), Coin("btc", "Bitcoin", 100),
      Coin("btc", "Bitcoin BTC", 105)>>,
    <<Coin("eth", "Ethereum", 7), Coin("btc", "Bitcoin", 100),
      Coin("sol", "Solana", 3)>> }
StoreResponses == [ok : {TRUE}, cause : {""}, array : {TRUE}, data : StoreBatches]

InitStore ==
  /\ isRunning = FALSE
  /\ jobs = <<>>
  /\ handles = <<>>
  /\ inflight = EmptyBag
  /\ store = <<>>
  /\ now = 0
  /\ variant \in Variants
  /\ last = Nothing

AwaitedTrigger ==
  /\ inflight = EmptyBag
  /\ triggerScraping

NextStore ==
  \/ AwaitedTrigger
  \/ \E run \in InFlight, resp \in StoreResponses : FetchReturn(run, resp)
  \/ \E run \in InFlight, ok \in BOOLEAN : FindReturn(run, ok)
  \/ \E run \in InFlight, ok \in BOOLEAN : WriteReturn(run, ok)
  \/ \E d \in ClockSteps : AdvanceClock(d)

SpecStore == InitStore /\ [][NextStore]_vars

\* ---- Overlapping runs ----
\* Manual triggers arrive while earlier runs are still in flight.
OverlapBatches ==
  { <<Coin("btc", "Bitcoin", 100)>>,
    <<Coin("eth", "Ethereum", 7), Coin("btc", "Bitcoin", 100)>> }
OverlapResponses == [ok : {TRUE}, cause : {""}, array : {TRUE}, data : OverlapBatches]

NextOverlap ==
  \/ triggerScraping
  \/ \E run \in InFlight, resp \in OverlapResponses : FetchReturn(run, resp)
  \/ \E run \in InFlight, ok \in BOOLEAN : FindReturn(run, ok)
  \/ \E run \in InFlight, ok \in BOOLEAN : WriteReturn(run, ok)

\* ---- Saves, sweeps and deletions, one at a time, over the retention time ----
SweepBatches == { <<Coin("btc", "Bitcoin", 100)>>, <<Coin("eth", "Ethereum", 7)>> }
SweepResponses == [ok : {TRUE}, cause : {""}, array : {TRUE}, data : SweepBatches]

AwaitedMaintenance ==
  /\ inflight = EmptyBag
  /\ performMaintenance

NextSweep ==
  \/ AwaitedTrigger
  \/ AwaitedMaintenance
  \/ \E run \in InFlight, resp \in SweepResponses : FetchReturn(run, resp)
  \/ \E run \in InFlight, ok \in BOOLEAN : FindReturn(run, ok)
  \/ \E run \in InFlight, ok \in BOOLEAN : WriteReturn(run, ok)
  \/ \E run \in InFlight, ok \in BOOLEAN : SweepReturn(run, ok)
  \/ \E id \in 1..MaxStore : deleteById(id)
  \/ \E d \in ClockSteps : AdvanceClock(d)
  \/ LongWait

SpecSweep == InitStore /\ [][NextSweep]_vars

SpecOverlap == InitStore /\ [][NextOverlap]_vars

(* =============================== claims =============================== *)
Active == {h \in DOMAIN handles : handles[h].active}
JobOf(m, k) == IF MapHas(m, k) THEN MapGet(m, k) ELSE 0
HasRoom == BagCardinality(inflight) < MaxRuns

\* C1: start(schedule) on a scheduler that is already running is a no-op for any
\* schedule argument: it does not throw, creates no job, leaves the registered
\* handles, their schedules and activity unchanged, isRunning stays true and
\* getStatus().jobCount stays 2.
C1_StartWhenRunningIsNoop ==
  [][\A schedule \in Schedules :
       (isRunning /\ start(schedule)) =>
         /\ UNCHANGED <<isRunning, jobs, handles>>
         /\ isRunning'
         /\ Len(jobs') = 2
         /\ ~last'.threw]_vars
C1_Witness ==
  /\ last.op = "start" /\ last.wasRunning /\ last.arg \in InvalidSchedules
  /\ getStatus.isRunning /\ getStatus.jobCount = 2

\* C2: after start(schedule) with a schedule node-cron accepts, on a stopped
\* scheduler, exactly two jobs are registered, "scraping" on the caller's schedule
\* and "cleanup" on the fixed daily one, both are active and they are the only
\* active jobs, and isRunning is true.
C2_StartRegistersTwoJobs ==
  (last.op = "start" /\ ~last.wasRunning /\ ~last.threw) =>
    /\ isRunning
    /\ MapKeys(jobs) = <<"scraping", "cleanup">>
    /\ handles[MapGet(jobs, "scraping")] =
         [schedule |-> last.arg, kind |-> "scraping", active |-> TRUE]
    /\ handles[MapGet(jobs, "cleanup")] =
         [schedule |-> CleanupSchedule, kind |-> "cleanup", active |-> TRUE]
    /\ Active = {MapGet(jobs, "scraping"), MapGet(jobs, "cleanup")}
    /\ Cardinality(Active) = 2
C2_Witness ==
  /\ last.op = "start" /\ ~last.wasRunning /\ ~last.threw
  /\ last.arg # DefaultSchedule
  /\ Len(handles) > 2

\* C3: once stop() has returned on a running scheduler, every cron job the
\* scheduler ever created is stopped, the job set is empty and isRunning is false;
\* and as long as the scheduler is stopped no job is active, so that no scheduled
\* callback can begin before the next start().
C3_StopHaltsEveryJob ==
  /\ (last.op = "stop" /\ last.wasRunning) =>
       (Active = {} /\ jobs = <<>> /\ getStatus.jobCount = 0 /\ ~isRunning)
  /\ ~isRunning => (Active = {} /\ \A h \in 1..MaxHandles : ~ENABLED tick(h))
C3_Witness ==
  /\ last.op = "stop" /\ last.wasRunning
  /\ Len(handles) = 3
  /\ inflight # EmptyBag

\* C4: stop() on a scheduler that is already stopped is a no-op: isRunning stays
\* false, the job set stays empty and no job handle changes.
C4_StopWhenStoppedIsNoop ==
  [][(~isRunning /\ stop) =>
       (~isRunning' /\ jobs = <<>> /\ jobs' = <<>> /\ handles' = handles)]_vars
C4_Witness ==
  /\ last.op = "stop" /\ ~last.wasRunning
  /\ ~isRunning /\ jobs = <<>> /\ handles # <<>>

\* C5: updateSchedule(newSchedule) with a schedule node-cron accepts, on a running
\* scheduler, stops the old scraping job, registers a new active job on
\* newSchedule under the same name, and leaves the cleanup job untouched (same
\* handle, still active); jobCount stays 2 and isRunning stays true. A job that
\* has been stopped is never active again.
C5_UpdateReplacesScrapingJob ==
  [][/\ \A newSchedule \in ValidSchedules :
          (isRunning /\ updateSchedule(newSchedule)) =>
            LET old == JobOf(jobs, "scraping")
                new == JobOf(jobs', "scraping")
                cleanup == JobOf(jobs, "cleanup")
            IN /\ ~handles'[old].active
               /\ new \notin DOMAIN handles
               /\ handles'[new] =
                    [schedule |-> newSchedule, kind |-> "scraping", active |-> TRUE]
               /\ MapKeys(jobs') = MapKeys(jobs)
               /\ JobOf(jobs', "cleanup") = cleanup
               /\ handles'[cleanup] = handles[cleanup]
               /\ handles'[cleanup].active
               /\ Len(jobs') = 2
               /\ isRunning'
     /\ \A h \in DOMAIN handles : ~handles[h].active => ~handles'[h].active]_vars
C5_Witness ==
  /\ last.op = "updateSchedule" /\ last.wasRunning /\ ~last.threw
  /\ isRunning
  /\ handles[MapGet(jobs, "scraping")].schedule = last.arg
  /\ \E h \in DOMAIN handles :
       /\ handles[h].kind = "scraping" /\ ~handles[h].active
       /\ handles[h].schedule # last.arg

\* C6: updateSchedule(newSchedule) on a stopped scheduler does nothing, whatever
\* the schedule: no job is created or started, the job set stays empty and
\* getStatus().isRunning remains false.
C6_UpdateWhenStoppedIsNoop ==
  [][\A newSchedule \in Schedules :
       (~isRunning /\ updateSchedule(newSchedule)) =>
         /\ UNCHANGED <<isRunning, jobs, handles>>
         /\ jobs' = <<>>
         /\ Active' = {}
         /\ ~isRunning'
         /\ ~last'.threw]_vars
C6_Witness ==
  /\ last.op = "updateSchedule" /\ ~last.wasRunning /\ last.arg \in ValidSchedules
  /\ ~getStatus.isRunning /\ getStatus.jobCount = 0

\* a step of a manual trigger: the call, or one of its continuations
TriggerStep ==
  \/ triggerScraping
  \/ \E run \in InFlight :
       /\ run.origin = "trigger"
       /\ \/ \E resp \in Responses : FetchReturn(run, resp)
          \/ \E ok \in BOOLEAN : FindReturn(run, ok) \/ WriteReturn(run, ok)

\* C7: triggerScraping() can be called, and runs the orchestrator, whether the
\* scheduler is running or stopped, and no step of it changes isRunning or the
\* job set (names, handles, schedules, activity).
C7_TriggerIndependentOfScheduler ==
  [][/\ HasRoom => ENABLED triggerScraping
     /\ UNCHANGED <<isRunning, jobs, handles>> \/ ~TriggerStep]_vars
C7_Witness ==
  /\ last.op = "settled" /\ last.origin = "trigger"
  /\ last.ps.value.success /\ last.saveCalls = 1
  /\ ~isRunning /\ jobs = <<>> /\ handles # <<>>

\* outcomes a performScraping() call may hand to its caller
Outcomes ==
  { Resolved(NoDataFound),
    Resolved(ScrapingFailed(<<"Crypto scraping failed: ", "Network Error">>)),
    Resolved(ScrapingCompleted([saved |-> 1, updated |-> 0, skipped |-> 0, total |-> 1])),
    Rejected(<<"Database save failed: ", "connection closed">>) }

\* C8: triggerScraping() settles exactly as performScraping() settled: it
\* resolves with the same object and rejects with the same error; a scheduled
\* callback resolves with nothing whatever the outcome was, so an error ends there.
C8_TriggerPropagatesOutcome ==
  /\ (last.op = "settled" /\ last.origin = "trigger") =>
       (last.ps.kind # "pending" /\ last.ret = last.ps)
  /\ (last.op = "settled" /\ last.origin \in {"scraping", "cleanup"}) =>
       last.ret = ResolvedUndefined
  /\ \A o \in Outcomes :
       /\ TriggerSettle(o) = o
       /\ TickSettle(o).kind = "resolved" /\ ~TickSettle(o).defined
C8_Witness ==
  /\ last.op = "settled" /\ last.origin = "trigger"
  /\ last.ret.kind = "resolved" /\ last.ret.defined
  /\ last.ret.value.success
  /\ last.ret.value.result = [saved |-> 0, updated |-> 1, skipped |-> 0, total |-> 1]

\* a scheduled callback settles after its action has failed
FailedTick ==
  \E run \in InFlight :
    /\ run.origin # "trigger"
    /\ inflight' = Finish(run)
    /\ last'.op = "settled" /\ last'.origin = run.origin
    /\ IF run.origin = "cleanup" THEN ~last'.sweep.success
                                 ELSE ~last'.ps.value.success

\* C9: a scheduled callback (scrape or cleanup) whose action fails settles
\* normally and changes nothing of the scheduler: every job stays registered and
\* active as it was and isRunning is unchanged; the settled callback frees its
\* place, and an active job can fire whenever there is room for another run.
C9_FailedTickKeepsSchedule ==
  [][/\ \A h \in Active : HasRoom => ENABLED tick(h)
     /\ (last'.op = "settled" /\ FailedTick) =>
          /\ UNCHANGED <<isRunning, jobs, handles>>
          /\ last'.ret.kind = "resolved"
          /\ BagCardinality(inflight') < MaxRuns]_vars
C9_Witness ==
  /\ last.op = "settled" /\ last.origin = "scraping" /\ last.fetch = "failed"
  /\ isRunning
  /\ JobOf(jobs, "scraping") \in Active
  /\ \E run \in InFlight : run.origin = "scraping" /\ run.pc = "fetch"

\* C10: when the fetch fails, performScraping() does not reject: it resolves
\* {success: false, message, result: all zero}, with the cause in the message;
\* saveCryptoData is not invoked and the store is unchanged.
C10_FetchFailureIsReported ==
  [][\A run \in InFlight, resp \in Responses :
       (~resp.ok /\ FetchReturn(run, resp)) =>
         /\ last'.op = "settled"
         /\ last'.ps.kind = "resolved" /\ last'.ps.defined
         /\ ~last'.ps.value.success
         /\ last'.ps.value.result = ZeroResult
         /\ last'.ps.value.message # <<>>
         /\ last'.ps.value.message[Len(last'.ps.value.message)] = resp.cause
         /\ last'.saveCalls = 0 /\ last'.wrote = 0
         /\ inflight' = Finish(run)
         /\ store' = store]_vars
C10_Witness ==
  /\ last.op = "settled" /\ last.fetch = "failed"
  /\ last.ps.value.result = ZeroResult
  /\ store # <<>>

\* C11: when the fetch returns an empty sequence, performScraping() resolves
\* {success: false} with the all-zero result; saveCryptoData is never invoked: the
\* run ends there, with no store read and no store write.
C11_EmptyFetchSkipsSave ==
  [][\A run \in InFlight, resp \in Responses :
       (resp.ok /\ resp.data = <<>> /\ FetchReturn(run, resp)) =>
         /\ last'.op = "settled" /\ last'.fetch = "empty"
         /\ last'.ps.kind = "resolved" /\ last'.ps.defined
         /\ ~last'.ps.value.success
         /\ last'.ps.value.result = ZeroResult
         /\ last'.saveCalls = 0 /\ last'.found = 0 /\ last'.wrote = 0
         /\ inflight' = Finish(run)
         /\ \A q \in BagToSet(inflight') : q \in InFlight
         /\ store' = store]_vars
C11_Witness ==
  /\ last.op = "settled" /\ last.fetch = "empty"
  /\ ~last.ps.value.success
  /\ last.saveCalls = 0
  /\ store # <<>>

\* a store call of a run settles: a findOne that fails, or a save
LastStoreCall(run, ok) ==
  \/ run.pc = "find" /\ ~ok /\ FindReturn(run, ok)
  \/ run.pc = "write" /\ WriteReturn(run, ok)
Inserted(run, ok) == IF run.pc = "write" /\ ok /\ run.doc = 0 THEN 1 ELSE 0
Updated(run, ok) == IF run.pc = "write" /\ ok /\ run.doc # 0 THEN 1 ELSE 0
Skipped(run, ok) == IF ok THEN 0 ELSE 1

\* C12: when the fetch returns N >= 1 records, performScraping() invokes
\* saveCryptoData exactly once, with the N mapped records in the order of the
\* response, and resolves {success: true, result} where result is the counts the save
\* returned: its counters after the last record and total = N. This is so also when
\* every record was skipped.
C12_SaveOnceAndWrapCounts ==
  [][/\ \A run \in InFlight, resp \in StoreResponses :
          (Len(resp.data) >= 1 /\ FetchReturn(run, resp)) =>
            \E new \in BagToSet(inflight') :
              /\ inflight' = Resume(run, new)
              /\ new.saveCalls = 1 /\ new.pc = "find" /\ new.i = 1
              /\ Len(new.data) = Len(resp.data)
              /\ \A k \in DOMAIN resp.data :
                   /\ new.data[k].symbol = toUpperCase(resp.data[k].symbol)
                   /\ new.data[k].name = resp.data[k].name
                   /\ new.data[k].price = resp.data[k].current_price
     /\ \A run \in InFlight, ok \in BOOLEAN :
          (run.i = Len(run.data) /\ LastStoreCall(run, ok)) =>
            /\ last'.op = "settled" /\ last'.saveCalls = 1
            /\ last'.ps.kind = "resolved" /\ last'.ps.defined
            /\ last'.ps.value.success
            /\ last'.ps.value.result =
                 [saved |-> run.saved + Inserted(run, ok),
                  updated |-> run.updated + Updated(run, ok),
                  skipped |-> run.skipped + Skipped(run, ok),
                  total |-> Len(run.data)]]_vars
C12_Witness ==
  /\ last.op = "settled" /\ last.saveCalls = 1
  /\ last.ps.value.success
  /\ last.ps.value.result = [saved |-> 0, updated |-> 0, skipped |-> 2, total |-> 2]

\* C13: when the store is unavailable for a whole batch (every findOne of the save
\* fails, from the first record on, so that no store call of the run succeeds), the
\* save propagates an error and performScraping() reports {success: false} with the
\* all-zero result.
C13_UnavailableStoreIsReported ==
  (last.op = "settled" /\ last.fetch = "ok" /\ last.found = 0 /\ last.wrote = 0) =>
    /\ last.ps.kind = "resolved"
    /\ ~last.ps.value.success
    /\ last.ps.value.result = ZeroResult

\* the stored entries of a key, and those that are active
EntriesOf(st, key) == {d \in DOMAIN st : st[d].symbol = key}
ActiveOf(st, key) == {d \in EntriesOf(st, key) : st[d].isActive}
\* the time at which the pending findOne of a run was issued
AskedAt(run) == run.cutoff + FreshnessMinutes
\* the entries of a key that are inside the freshness window at time t
InWindow(st, key, t) == {d \in EntriesOf(st, key) : t - st[d].timestamp <= FreshnessMinutes}
\* the entries a record of the deployed pipeline is a second presentation of
Presented(st, key, t) == IF variant = "article" THEN EntriesOf(st, key) ELSE InWindow(st, key, t)
\* the counters of a run after one of its store calls has settled
CountersAfter(run, ok) ==
  [saved |-> run.saved + Inserted(run, ok), updated |-> run.updated + Updated(run, ok),
   skipped |-> run.skipped + Skipped(run, ok)]
CountersAre(run, c) ==
  IF run.i < Len(run.data)
  THEN \E new \in BagToSet(inflight') :
         /\ inflight' = Resume(run, new)
         /\ new.saved = c.saved /\ new.updated = c.updated /\ new.skipped = c.skipped
  ELSE /\ last'.ps.value.result.saved = c.saved
       /\ last'.ps.value.result.updated = c.updated
       /\ last'.ps.value.result.skipped = c.skipped
\* a save of an entry that the run had found
UpdateStep(run) == run.pc = "write" /\ run.doc # 0 /\ WriteReturn(run, TRUE)
\* a save of a new entry
InsertStep(run) == run.pc = "write" /\ run.doc = 0 /\ WriteReturn(run, TRUE)

OnlyBTC(run, p) ==
  Len(run.data) = 1 /\ run.data[1].symbol = "BTC" /\ run.data[1].price = p
Counts(s, u, k, t) == [saved |-> s, updated |-> u, skipped |-> k, total |-> t]

\* C15: saving [{symbol BTC, price 100}] into an empty store returns
\* {saved: 1, updated: 0, skipped: 0, total: 1}; saving {symbol BTC, price 105}
\* again within the freshness window finds the stored record and returns
\* {saved: 0, updated: 1, skipped: 0, total: 1}, and the single stored BTC record
\* then has price 105.
C15_InsertThenUpdateScenario ==
  [][\A run \in InFlight :
       /\ (store = <<>> /\ OnlyBTC(run, 100) /\ run.pc = "find" /\ FindReturn(run, TRUE)) =>
            inflight' = Resume(run, [run EXCEPT !.pc = "write", !.doc = 0, !.found = 1])
       /\ (store = <<>> /\ OnlyBTC(run, 100) /\ InsertStep(run)) =>
            /\ last'.ps.value.success
            /\ last'.ps.value.result = Counts(1, 0, 0, 1)
            /\ Len(store') = 1
            /\ store'[1].symbol = "BTC" /\ store'[1].price = 100 /\ store'[1].isActive
       /\ (/\ Len(store) = 1 /\ store[1].symbol = "BTC" /\ store[1].price = 100
           /\ OnlyBTC(run, 105) /\ run.pc = "find"
           /\ AskedAt(run) - store[1].timestamp <= FreshnessMinutes
           /\ FindReturn(run, TRUE)) =>
            inflight' = Resume(run, [run EXCEPT !.pc = "write", !.doc = 1, !.found = 1])
       /\ (/\ Len(store) = 1 /\ store[1].symbol = "BTC" /\ store[1].price = 100
           /\ OnlyBTC(run, 105) /\ UpdateStep(run)) =>
            /\ last'.ps.value.success
            /\ last'.ps.value.result = Counts(0, 1, 0, 1)
            /\ Len(store') = 1
            /\ store'[1].symbol = "BTC" /\ store'[1].price = 105 /\ store'[1].isActive]_vars
C15_Witness ==
  /\ variant = "crypto"
  /\ last.op = "settled"
  /\ last.ps.value.result = Counts(0, 1, 0, 1)
  /\ Len(store) = 1 /\ store[1].symbol = "BTC" /\ store[1].price = 105
  /\ now = FreshnessMinutes

\* a store call of a run fails: its findOne or its save
FailedStoreCall(run) ==
  \/ run.pc = "find" /\ FindReturn(run, FALSE)
  \/ run.pc = "write" /\ WriteReturn(run, FALSE)

\* C16: when the persistence of record k of a batch of N records fails, at any
\* position k, the save does not throw: the store is left as it was, only skipped is
\* incremented, and the save goes on with record k + 1 or, after record N, returns
\* total = N and skipped >= 1. Every other record is inserted or updated by what the
\* store holds and the record says alone, as it would be had record k been absent.
C16_FailedRecordIsIsolated ==
  [][\A run \in InFlight :
       LET crypto == run.data[run.i]
       IN /\ FailedStoreCall(run) =>
               /\ store' = store
               /\ CountersAre(run, [saved |-> run.saved, updated |-> run.updated,
                                    skipped |-> run.skipped + 1])
               /\ IF run.i < Len(run.data)
                  THEN /\ UNCHANGED last
                       /\ \E new \in BagToSet(inflight') :
                            /\ inflight' = Resume(run, new)
                            /\ new.pc = "find" /\ new.i = run.i + 1
                            /\ new.data = run.data
                  ELSE /\ last'.op = "settled"
                       /\ last'.ps.kind = "resolved" /\ last'.ps.value.success
                       /\ last'.ps.value.result.total = Len(run.data)
                       /\ last'.ps.value.result.skipped >= 1
          /\ (run.pc = "find" /\ FindReturn(run, TRUE)) =>
               \E new \in BagToSet(inflight') :
                 /\ inflight' = Resume(run, new)
                 /\ new.skipped = run.skipped
                 /\ IF Presented(store, crypto.symbol, AskedAt(run)) = {}
                    THEN new.doc = 0
                    ELSE new.doc \in Presented(store, crypto.symbol, AskedAt(run))
          /\ InsertStep(run) =>
               /\ Len(store') = Len(store) + 1
               /\ \A d \in DOMAIN store : store'[d] = store[d]
               /\ \A f \in DOMAIN crypto : store'[Len(store')][f] = crypto[f]
               /\ CountersAre(run, [saved |-> run.saved + 1, updated |-> run.updated,
                                    skipped |-> run.skipped])
          /\ UpdateStep(run) =>
               /\ Len(store') = Len(store)
               /\ \A d \in DOMAIN store : d # run.doc => store'[d] = store[d]
               /\ store'[run.doc].price = crypto.price
               /\ store'[run.doc].timestamp = crypto.timestamp
               /\ CountersAre(run, [saved |-> run.saved, updated |-> run.updated + 1,
                                    skipped |-> run.skipped])]_vars
C16_Witness ==
  /\ last.op = "settled"
  /\ last.ps.value.success
  /\ last.ps.value.result = Counts(1, 0, 1, 2)
  /\ Len(store) = 1 /\ store[1].symbol = "BTC"

\* a store call of a run settles
StoreCall(run, ok) ==
  \/ run.pc = "find" /\ FindReturn(run, ok)
  \/ run.pc = "write" /\ WriteReturn(run, ok)
\* the record of a run is done: its findOne failed or its save settled
RecordDone(run, ok) == run.pc = "write" \/ ~ok
Sum(c) == c.saved + c.updated + c.skipped

\* C17: every result of saveCryptoData has total = number of input records and
\* saved + updated + skipped = total: each record adds one to exactly one counter of
\* its own run, when it is done. Runs that execute concurrently do not touch each
\* other's counters.
C17_CountsPartitionTheBatch ==
  [][\A run \in InFlight, ok \in BOOLEAN :
       StoreCall(run, ok) =>
         LET c == CountersAfter(run, ok)
         IN /\ Sum(run) = run.i - 1
            /\ Sum(c) = IF RecordDone(run, ok) THEN run.i ELSE run.i - 1
            /\ IF RecordDone(run, ok) /\ run.i = Len(run.data)
               THEN /\ inflight' = Finish(run)
                    /\ last'.ps.value.result.total = Len(run.data)
                    /\ Sum(last'.ps.value.result) = last'.ps.value.result.total
                    /\ last'.ps.value.result.saved = c.saved
                    /\ last'.ps.value.result.updated = c.updated
                    /\ last'.ps.value.result.skipped = c.skipped
               ELSE \E new \in BagToSet(inflight') :
                      /\ inflight' = Resume(run, new)
                      /\ new.saved = c.saved /\ new.updated = c.updated
                      /\ new.skipped = c.skipped /\ new.data = run.data]_vars
C17_Witness ==
  /\ last.op = "settled"
  /\ last.ps.value.result = Counts(1, 0, 1, 2)
  /\ \E run \in InFlight : run.pc = "write" /\ run.i = 2 /\ run.updated = 1

\* C18 (as claimed): when the save finds a stored record for an incoming record, every
\* field of the stored record but the identity key is overwritten with the incoming
\* value, the name included; isActive is set to true and updated is incremented.
C18_UpdateOverwritesEveryField ==
  [][\A run \in InFlight :
       UpdateStep(run) =>
         LET crypto == run.data[run.i]
         IN /\ store'[run.doc].symbol = store[run.doc].symbol
            /\ store'[run.doc].name = crypto.name
            /\ store'[run.doc].price = crypto.price
            /\ store'[run.doc].timestamp = crypto.timestamp
            /\ store'[run.doc].isActive
            /\ CountersAre(run, [saved |-> run.saved, updated |-> run.updated + 1,
                                 skipped |-> run.skipped])]_vars

\* C18 (amended): when the save finds a stored record for an incoming record, the
\* market fields (here the price) and the timestamp of the stored record are
\* overwritten with the incoming values, isActive is set to true and updated is
\* incremented; the symbol and the name of the stored record are kept.
C18_UpdateOverwritesMarketFields ==
  [][\A run \in InFlight :
       UpdateStep(run) =>
         LET crypto == run.data[run.i]
         IN /\ store'[run.doc].symbol = store[run.doc].symbol
            /\ store'[run.doc].name = store[run.doc].name
            /\ store'[run.doc].price = crypto.price
            /\ store'[run.doc].timestamp = crypto.timestamp
            /\ store'[run.doc].isActive
            /\ CountersAre(run, [saved |-> run.saved, updated |-> run.updated + 1,
                                 skipped |-> run.skipped])]_vars
C18_Witness ==
  /\ last.op = "settled"
  /\ last.ps.value.result = Counts(0, 1, 0, 1)
  /\ Len(store) = 1
  /\ store[1].name = "Bitcoin" /\ store[1].price = 105 /\ store[1].isActive

\* C19: in the asset variant the findOne of an incoming record yields a stored record
\* only if the symbol is equal and the stored timestamp is at most 5 minutes older
\* than the lookup, and yields one when there is such a record; when the stored
\* records of the symbol are all older, the record is inserted (saved incremented)
\* and the stored records are left as they were. In the article variant the findOne
\* yields a stored record of the same link whenever there is one, whatever its age.
C19_MatchBySymbolAndWindowOrLink ==
  [][\A run \in InFlight :
       LET crypto == run.data[run.i]
           fresh == {d \in DOMAIN store :
                       /\ store[d].symbol = crypto.symbol
                       /\ AskedAt(run) - store[d].timestamp <= FreshnessMinutes}
           same == {d \in DOMAIN store : store[d].symbol = crypto.symbol}
       IN /\ (run.pc = "find" /\ FindReturn(run, TRUE)) =>
               \E new \in BagToSet(inflight') :
                 /\ inflight' = Resume(run, new)
                 /\ new.pc = "write"
                 /\ IF variant = "crypto"
                    THEN IF fresh = {} THEN new.doc = 0 ELSE new.doc \in fresh
                    ELSE IF same = {} THEN new.doc = 0 ELSE new.doc \in same
          /\ InsertStep(run) =>
               /\ Len(store') = Len(store) + 1
               /\ \A d \in DOMAIN store : store'[d] = store[d]
               /\ store'[Len(store')].symbol = crypto.symbol
               /\ store'[Len(store')].isActive
               /\ CountersAre(run, [saved |-> run.saved + 1, updated |-> run.updated,
                                    skipped |-> run.skipped])]_vars
C19_Witness ==
  /\ variant = "crypto"
  /\ last.op = "settled"
  /\ last.ps.value.result = Counts(1, 0, 0, 1)
  /\ Len(store) = 2
  /\ store[1].symbol = "BTC" /\ store[1].timestamp = 0 /\ store[1].isActive
  /\ store[2].symbol = "BTC" /\ store[2].timestamp = MaxTime

\* C20: in every reachable state, also when the findOne and save steps of two
\* overlapping performScraping runs interleave, each symbol has at most one active
\* Crypto record whose timestamp is inside the 5-minute freshness window.
C20_OneActivePerSymbolInWindow ==
  \A d, e \in DOMAIN store :
    (/\ store[d].symbol = store[e].symbol
     /\ store[d].isActive /\ store[e].isActive
     /\ now - store[d].timestamp <= FreshnessMinutes
     /\ variant = "crypto"
     /\ now - store[e].timestamp <= FreshnessMinutes) => d = e

\* the entries of a key that are older than the freshness window at time t
Stale(st, key, t) == {d \in EntriesOf(st, key) : t - st[d].timestamp > FreshnessMinutes}
\* a sweep that the store applies
SweepStep(run) == run.pc = "sweep" /\ SweepReturn(run, TRUE)
\* a DELETE /:id has been answered
DeleteStep == last'.op = "delete" /\ UNCHANGED <<sched, inflight, now, variant>>

OnePerLink(st) == \A d, e \in DOMAIN st : KeyOf(st[d]) = KeyOf(st[e]) => d = e

\* C22: in the article variant the store holds at most one Article per link, after
\* any sequence or interleaving of saveArticles runs; when two overlapping runs both
\* found no article for a link, the insert of the one that saves second is refused:
\* it changes nothing and the run counts the record as skipped.
C22_OneArticlePerLink ==
  [][variant = "article" =>
       /\ OnePerLink(store) /\ OnePerLink(store')
       /\ \A run \in InFlight, ok \in BOOLEAN :
            (/\ run.pc = "write" /\ run.doc = 0
             /\ MatchesLink(store, KeyOf(run.data[run.i])) # {}
             /\ WriteReturn(run, ok)) =>
              /\ store' = store
              /\ CountersAre(run, [saved |-> run.saved, updated |-> run.updated,
                                   skipped |-> run.skipped + 1])]_vars
C22_Witness ==
  /\ variant = "article"
  /\ Len(store) = 1 /\ store[1].symbol = "BTC"
  /\ last.op = "settled" /\ last.found = 1 /\ last.wrote = 0
  /\ last.ps.value.result = Counts(0, 0, 1, 1)
  /\ inflight = EmptyBag

\* what a record holds apart from isActive and the updatedAt stamp
Content(doc) == [symbol |-> doc.symbol, name |-> doc.name, price |-> doc.price,
                 timestamp |-> doc.timestamp]

\* C23: no operation removes a stored record: in every step of a save, a sweep, a
\* manual trigger or a DELETE /:id the stored ids stay and keep their identity key;
\* the sweep and the deletion add no record and change no content: they only set
\* isActive to false.
C23_RecordsAreNeverRemoved ==
  [][/\ Len(store') >= Len(store)
     /\ \A d \in DOMAIN store : KeyOf(store'[d]) = KeyOf(store[d])
     /\ (DeleteStep \/ \E run \in InFlight : SweepStep(run)) =>
          /\ Len(store') = Len(store)
          /\ \A d \in DOMAIN store :
               /\ Content(store'[d]) = Content(store[d])
               /\ store'[d].isActive => store[d].isActive]_vars
C23_Witness ==
  /\ last.op = "delete" /\ last.status = 200
  /\ Len(store) = 2
  /\ ~store[1].isActive /\ store[2].isActive

\* a cleanup is called: performMaintenance, or the tick of the cleanup job
SweepBegins(new) ==
  /\ new.pc = "sweep"
  /\ new \in BagToSet(inflight')
  /\ inflight' = inflight (+) SetToBag({new})
\* the duration of the cleanup of the deployed pipeline, in minutes
Duration == IF variant = "article" THEN CleanupDays * 24 * 60 ELSE CleanupHours * 60

\* C24 (as claimed): the cleanup computes cutoff = now minus the duration and, in one
\* bulk update, sets isActive = false on every record captured strictly before the
\* cutoff; the other records keep their isActive, and no field other than isActive
\* changes on any record.
C24_SweepChangesOnlyIsActive ==
  [][/\ \A new \in BagToSet(inflight') : SweepBegins(new) => new.cutoff = now - Duration
     /\ \A run \in InFlight :
          SweepStep(run) =>
            /\ Len(store') = Len(store)
            /\ \A d \in DOMAIN store :
                 IF store[d].timestamp < run.cutoff
                 THEN store'[d] = [store[d] EXCEPT !.isActive = FALSE]
                 ELSE store'[d] = store[d]]_vars

\* C24 (amended): the cleanup computes cutoff = now minus the duration and, in one
\* bulk update, sets isActive = false on every record captured strictly before the
\* cutoff, and stamps updatedAt on each of them, those already inactive included;
\* nothing else of them changes. The records captured at or after the cutoff are left
\* as they are.
C24_SweepFlagsAndStamps ==
  [][/\ \A new \in BagToSet(inflight') : SweepBegins(new) => new.cutoff = now - Duration
     /\ \A run \in InFlight :
          SweepStep(run) =>
            /\ Len(store') = Len(store)
            /\ \A d \in DOMAIN store :
                 IF store[d].timestamp < run.cutoff
                 THEN /\ ~store'[d].isActive
                      /\ Content(store'[d]) = Content(store[d])
                      /\ store'[d].updatedAt = now
                 ELSE store'[d] = store[d]]_vars
C24_Witness ==
  /\ last.op = "settled" /\ last.sweep.ran /\ last.sweep.success
  /\ last.sweep.cutoff = FreshnessMinutes
  /\ Len(store) = 2
  /\ store[1].timestamp = 0 /\ ~store[1].isActive /\ store[1].updatedAt > store[1].timestamp
  /\ store[2].timestamp = last.sweep.cutoff /\ store[2].isActive

\* C25: the sweep is idempotent: a sweep that runs right after a sweep of the same
\* cutoff, with no record saved, changed or deleted in between, reports
\* modifiedCount = 0 and leaves the store exactly as the first sweep left it.
C25_SecondSweepModifiesNothing ==
  [][\A run \in InFlight :
       (/\ last.op = "settled" /\ last.sweep.ran /\ last.sweep.success
        /\ run.cutoff = last.sweep.cutoff
        /\ SweepStep(run)) =>
         /\ last'.sweep.success
         /\ last'.sweep.modifiedCount = 0
         /\ store' = store]_vars

C27_RecordsInOrderOneAtATime ==
  [][/\ \A run \in InFlight, resp \in StoreResponses :
          (Len(resp.data) >= 1 /\ FetchReturn(run, resp)) =>
            \E new \in BagToSet(inflight') :
              inflight' = Resume(run, new) /\ new.pc = "find" /\ new.i = 1
     /\ \A run \in InFlight, ok \in BOOLEAN :
          StoreCall(run, ok) =>
            /\ run.i \in 1..Len(run.data)
            /\ Sum(run) = run.i - 1
            /\ IF ~RecordDone(run, ok)
               THEN \E new \in BagToSet(inflight') :
                      /\ inflight' = Resume(run, new)
                      /\ new.pc = "write" /\ new.i = run.i /\ new.data = run.data
               ELSE IF run.i < Len(run.data)
               THEN \E new \in BagToSet(inflight') :
                      /\ inflight' = Resume(run, new)
                      /\ new.pc = "find" /\ new.i = run.i + 1 /\ new.data = run.data
               ELSE /\ inflight' = Finish(run)
                    /\ last'.op = "settled"
                    /\ last'.ps.value.result.total = run.i]_vars
C27_Witness ==
  /\ \E run \in InFlight : run.pc = "write" /\ run.i = 3 /\ run.saved = 1 /\ run.skipped = 1
  /\ Len(store) = 1

\* a batch whose records have pairwise distinct identity keys
DistinctKeys(data) ==
  \A j, k \in DOMAIN data : j # k => KeyOf(data[j]) # KeyOf(data[k])
\* the save of a three-record batch into an empty store has inserted its first
\* i - 1 records, in their order, and nothing else
OnTrack(st, run) ==
  /\ Len(run.data) = 3 /\ DistinctKeys(run.data)
  /\ run.saved = run.i - 1 /\ run.updated = 0 /\ run.skipped = 0
  /\ run.pc = "write" => run.doc = 0
  /\ Len(st) = run.i - 1
  /\ \A k \in 1..Len(st) : Content(st[k]) = Content(run.data[k]) /\ st[k].isActive

\* C28: a fetch result [A, B, C] with three distinct identity keys saved into an
\* empty store, no store call failing: every findOne finds nothing, every save
\* inserts the record behind the ones before it, and when the save returns the store
\* holds exactly the three records in the order A, B, C and the result is
\* {saved: 3, updated: 0, skipped: 0, total: 3}.
C28_ThreeDistinctKeysInOrder ==
  [][/\ \A run \in InFlight, resp \in StoreResponses :
          (/\ store = <<>>
           /\ Len(resp.data) = 3
           /\ DistinctKeys(scrapeCryptoData(resp, now).data)
           /\ FetchReturn(run, resp)) =>
            \E new \in BagToSet(inflight') :
              inflight' = Resume(run, new) /\ new.i = 1 /\ OnTrack(store', new)
     /\ \A run \in InFlight :
          (OnTrack(store, run) /\ FindReturn(run, TRUE)) =>
            \E new \in BagToSet(inflight') :
              inflight' = Resume(run, new) /\ new.i = run.i /\ OnTrack(store', new)
     /\ \A run \in InFlight :
          (OnTrack(store, run) /\ WriteReturn(run, TRUE)) =>
            IF run.i < 3
            THEN \E new \in BagToSet(inflight') :
                   inflight' = Resume(run, new) /\ new.i = run.i + 1 /\ OnTrack(store', new)
            ELSE /\ inflight' = Finish(run)
                 /\ last'.op = "settled"
                 /\ last'.ps.value.result = Counts(3, 0, 0, 3)
                 /\ Len(store') = 3
                 /\ \A k \in 1..3 : Content(store'[k]) = Content(run.data[k])
                                     /\ store'[k].isActive]_vars
C28_Witness ==
  /\ last.op = "settled"
  /\ last.ps.kind = "resolved"
  /\ last.ps.value.success
  /\ last.ps.value.result = Counts(3, 0, 0, 3)
  /\ Len(store) = 3
  /\ <<store[1].symbol, store[2].symbol, store[3].symbol>> = <<"ETH", "BTC", "SOL">>

\* the runs of performScraping() in flight
ScrapingRuns == {run \in InFlight : run.origin \in {"scraping", "trigger"}}

\* C29: the scheduler has no overlap guard: while a performScraping run is in flight
\* (and the process can hold another one) the timer of every active scraping task
\* can fire and start a second run, and triggerScraping can start one as well; so
\* two runs of the same scheduler are in flight together.
C29_NoOverlapGuard ==
  (ScrapingRuns # {} /\ HasRoom) =>
    /\ ENABLED triggerScraping
    /\ \A h \in Active : handles[h].kind = "scraping" => ENABLED tick(h)
C29_Witness ==
  \E first \in InFlight :
    /\ first.origin = "scraping" /\ first.pc = "write"
    /\ \E second \in InFlight : second.origin = "scraping" /\ second.pc = "fetch"

\* C30: stop() does not cancel a run in flight: the stop step leaves every run in
\* flight and the store as they are and leaves no task active; while the scheduler
\* is stopped no timer starts a run, and a run that is waiting for its save can
\* still have it applied.
C30_StopLeavesRunsInFlight ==
  [][/\ stop => (inflight' = inflight /\ store' = store /\ Active' = {})
     /\ ~isRunning => \A h \in 1..MaxHandles : ~tick(h)
     /\ \A run \in InFlight :
          (~isRunning /\ run.pc = "write") => ENABLED WriteReturn(run, TRUE)]_vars
C30_Witness ==
  /\ ~isRunning
  /\ last.op = "settled" /\ last.origin = "scraping"
  /\ last.wrote = 1
  /\ Len(store) >= 1

(* ============================ WebScraper (HTML) ============================ *)
\* The page is the sequence of its .athing blocks. A string is the sequence of its
\* pieces, so that startsWith and the template literal are computed on it; an
\* attribute the block does not have (undefined) is the empty sequence, which is
\* falsy like the empty string.
MaxBlocks == 2
BaseOrigin == <<"http", "s://news.ycombinator.com">>
startsWith(s, p) == Len(s) >= Len(p) /\ SubSeq(s, 1, Len(p)) = p
trim(s) == SelectSeq(s, LAMBDA c : c # " ")
Truthy(s) == s # <<>>

Titles == { <<" ">>, <<" ", "Story">> }
Hrefs ==
  { <<>>, <<"/", "item?id=1">>, <<"item?id=1">>, <<"http", "s://example.com/a">> }
Blocks ==
  [title : Titles, href : Hrefs, score : {1}, throws : {FALSE}]
    \cup { [title |-> <<" ", "Story">>, href |-> <<"/", "item?id=1">>, score |-> 1,
            throws |-> TRUE] }
Pages == UNION { [1..n -> Blocks] : n \in 0..MaxBlocks }

\* scrapeArticles(): "Handle relative URLs"
FullLink(link) ==
  IF Truthy(link) /\ startsWith(link, <<"http">>) THEN link
  ELSE IF Truthy(link) /\ startsWith(link, <<"/">>) THEN BaseOrigin \o link
  ELSE link

\* a callback without its try/catch: the first block that throws ends the parse
ParseBlockUnguarded(b, t) ==
  IF b.throws THEN [threw |-> TRUE, out |-> <<>>]
  ELSE LET title == trim(b.title)
           fullLink == FullLink(b.href)
       IN [threw |-> FALSE,
           out |-> IF Truthy(title) /\ Truthy(fullLink)
                   THEN << [symbol |-> fullLink, name |-> title, price |-> b.score,
                            timestamp |-> t, isActive |-> TRUE] >>
                   ELSE <<>>]

\* scrapeArticles(): the callback of $('.athing').each; the record has the shape of
\* a stored entry: its key (symbol) is the link, its name the title, its price the
\* score, its timestamp scrapedAt, and isActive the schema default of new Article()
ParseBlock(b, t) ==
  IF b.throws THEN [threw |-> FALSE, out |-> <<>>]
  ELSE LET title == trim(b.title)
           fullLink == FullLink(b.href)
       IN [threw |-> FALSE,
           out |-> IF Truthy(title) /\ Truthy(fullLink)
                   THEN << [symbol |-> fullLink, name |-> title, price |-> b.score,
                            timestamp |-> t, isActive |-> TRUE] >>
                   ELSE <<>>]

\* scrapeArticles(): the each loop pushes to articles in page order; an exception
\* that leaves the callback is caught by the outer catch and rethrown
RECURSIVE each(_, _)
each(page, t) ==
  IF page = <<>> THEN [kind |-> "resolved", data |-> <<>>, error |-> <<>>]
  ELSE LET head == ParseBlock(page[1], t)
           rest == each(Tail(page), t)
       IN IF head.threw \/ rest.kind = "rejected"
          THEN [kind |-> "rejected", data |-> <<>>, error |-> <<"Scraping failed: ">>]
          ELSE [kind |-> "resolved", data |-> head.out \o rest.data, error |-> <<>>]

\* scrapeArticles(): axios.get rejects, or the page is parsed
PageResponses == [ok : {TRUE}, page : Pages] \cup { [ok |-> FALSE, page |-> <<>>] }
scrapeArticles(resp, t) ==
  IF resp.ok THEN each(resp.page, t)
  ELSE [kind |-> "rejected", data |-> <<>>, error |-> <<"Scraping failed: ">>]

NoArticlesFound ==
  [success |-> FALSE, message |-> <<"No articles found during scraping">>,
   result |-> ZeroResult]

\* WebScraper.performScraping() up to its first store call: the page has arrived
ParseReturn(run, resp) ==
  /\ run \in InFlight
  /\ run.pc = "fetch"
  /\ variant = "article"
  /\ LET so == scrapeArticles(resp, now)
     IN /\ Len(store) + Len(so.data) <= MaxStore
        /\ IF so.kind = "rejected"
           THEN /\ inflight' = Finish(run)
                /\ last' = Settled([run EXCEPT !.fetch = "failed"], PerformCatch(so.error))
           ELSE IF Len(so.data) = 0
           THEN /\ inflight' = Finish(run)
                /\ last' = Settled([run EXCEPT !.fetch = "empty"], Resolved(NoArticlesFound))
           ELSE /\ inflight' = Resume(run,
                     [run EXCEPT !.pc = "find", !.fetch = "ok", !.data = so.data, !.i = 1,
                                 !.cutoff = FreshCutoff(now), !.saveCalls = @ + 1])
                /\ UNCHANGED last
  /\ UNCHANGED <<sched, store, now, variant>>

\* ---- The HTML pipeline, one run at a time ----
InitParse ==
  /\ isRunning = FALSE
  /\ jobs = <<>>
  /\ handles = <<>>
  /\ inflight = EmptyBag
  /\ store = <<>>
  /\ now = 0
  /\ variant = "article"
  /\ last = Nothing

NextParse ==
  \/ AwaitedTrigger
  \/ \E run \in InFlight, resp \in PageResponses : ParseReturn(run, resp)
  \/ \E run \in InFlight, ok \in BOOLEAN : FindReturn(run, ok)
  \/ \E run \in InFlight, ok \in BOOLEAN : WriteReturn(run, ok)

SpecParse == InitParse /\ [][NextParse]_vars

\* the blocks of a page that yield a record, and the k-th of them in page order
WellFormed(page) ==
  {j \in DOMAIN page : /\ ~page[j].throws
                       /\ \E c \in 1..Len(page[j].title) : page[j].title[c] # " "
                       /\ page[j].href # <<>>}
Kth(S, k) == CHOOSE j \in S : Cardinality({x \in S : x < j}) = k - 1
\* the records a run holds after the page has been parsed (none when there are none)
Emitted(run) ==
  IF inflight' = Finish(run) THEN <<>>
  ELSE (CHOOSE new \in BagToSet(inflight') : inflight' = Resume(run, new)).data

\* a page whose first block throws, whose second has a blank title, and whose third
\* is well-formed
MixedPage ==
  << [title |-> <<" ", "Story">>, href |-> <<"/", "item?id=1">>, score |-> 1,
      throws |-> TRUE],
     [title |-> <<" ">>, href |-> <<"http", "s://example.com/a">>, score |-> 1,
      throws |-> FALSE],
     [title |-> <<" ", "Story">>, href |-> <<"http", "s://example.com/a">>, score |-> 1,
      throws |-> FALSE] >>

C32_RelativeLinksResolved ==
  [][\A run \in InFlight, resp \in PageResponses :
       (resp.ok /\ ParseReturn(run, resp)) =>
         LET W == WellFormed(resp.page)
             out == Emitted(run)
         IN \A k \in 1..Len(out) :
              ~startsWith(resp.page[Kth(W, k)].href, <<"http">>) =>
                startsWith(out[k].symbol, BaseOrigin)]_vars

\* C33 (as claimed): updateSchedule is atomic also when it fails: after an
\* updateSchedule that threw the previous scrape job is still active, and in no
\* reachable state is isRunning true while the job registered under 'scraping' is
\* stopped.
C33_FailedUpdateKeepsJobActive ==
  isRunning => /\ MapHas(jobs, "scraping")
               /\ handles[MapGet(jobs, "scraping")].active

\* the active tasks of one kind
ActiveOfKind(kind) == {h \in Active : handles[h].kind = kind}
\* the names registered in the job map
JobNames == {jobs[i].name : i \in DOMAIN jobs}

\* C34: in every state reached by start, stop, updateSchedule and triggerScraping
\* calls (and the runs they start), isRunning is true exactly when the job set is
\* {'scraping', 'cleanup'} and false exactly when it is empty; jobCount is 0 or 2,
\* and at most one scrape task and at most one cleanup task are active.
C34_RunningIffBothJobs ==
  /\ isRunning <=> (JobNames = {"scraping", "cleanup"})
  /\ ~isRunning <=> (jobs = <<>>)
  /\ getStatus.jobCount \in {0, 2}
  /\ Cardinality(ActiveOfKind("scraping")) <= 1
  /\ Cardinality(ActiveOfKind("cleanup")) <= 1
C34_Witness ==
  /\ isRunning
  /\ last.op = "updateSchedule" /\ ~last.threw /\ last.wasRunning
  /\ Len(handles) = 3
  /\ getStatus.jobCount = 2

\* C35: a stored record that is inactive (expired by the sweep or soft-deleted) and
\* is matched by an incoming record is reactivated by the save: the findOne does not
\* look at isActive, so an inactive entry of the key (for assets: inside the
\* freshness window) is found, and after the update its isActive is true.
C35_UpdateReactivates ==
  [][\A run \in InFlight :
       /\ (run.pc = "find" /\ FindReturn(run, TRUE)) =>
            LET P == Presented(store, KeyOf(run.data[run.i]), AskedAt(run))
            IN (P # {} /\ \A d \in P : ~store[d].isActive) =>
                 \E new \in BagToSet(inflight') :
                   inflight' = Resume(run, new) /\ new.pc = "write" /\ new.doc \in P
       /\ (UpdateStep(run) /\ ~store[run.doc].isActive) =>
            /\ store'[run.doc].isActive
            /\ KeyOf(store'[run.doc]) = KeyOf(store[run.doc])
            /\ Len(store') = Len(store)
            /\ CountersAre(run, [saved |-> run.saved, updated |-> run.updated + 1,
                                 skipped |-> run.skipped])]_vars
C35_Witness ==
  \E run \in InFlight :
    /\ run.pc = "write" /\ run.doc \in DOMAIN store
    /\ ~store[run.doc].isActive
    /\ KeyOf(store[run.doc]) = KeyOf(run.data[run.i])

\* ---- The API feed with payloads that cannot be mapped ----
ApiBatches ==
  { <<Coin("btc", "Bitcoin", 100)>>,
    <<Coin("eth", "Ethereum", 7), Coin("btc", "Bitcoin", 105)>>,
    <<Coin("eth", "Ethereum", 7), Coin(Undefined, "Nameless", 1)>>,
    <<Coin(Undefined, "Nameless", 1), Coin("btc", "Bitcoin", 100)>> }
ApiResponses ==
  [ok : {TRUE}, cause : {""}, array : {TRUE}, data : ApiBatches]
    \cup [ok : {TRUE}, cause : {""}, array : {FALSE}, data : {<<>>}]
    \cup [ok : {FALSE}, cause : FetchErrors, array : {FALSE}, data : {<<>>}]

InitApi ==
  /\ isRunning = FALSE
  /\ jobs = <<>>
  /\ handles = <<>>
  /\ inflight = EmptyBag
  /\ store = <<>>
  /\ now = 0
  /\ variant = "crypto"
  /\ last = Nothing

NextApi ==
  \/ AwaitedTrigger
  \/ \E run \in InFlight, resp \in ApiResponses : FetchReturn(run, resp)
  \/ \E run \in InFlight, ok \in BOOLEAN : FindReturn(run, ok)
  \/ \E run \in InFlight, ok \in BOOLEAN : WriteReturn(run, ok)
  \/ \E d \in ClockSteps : AdvanceClock(d)

SpecApi == InitApi /\ [][NextApi]_vars

\* a response whose payload cannot be mapped as a whole
Unmappable(resp) ==
  resp.ok /\ (~resp.array \/ \E k \in DOMAIN resp.data : resp.data[k].symbol = Undefined)

\* C36: in the API variant there is no per-element isolation: when the payload is
\* not an array or the mapping of any one element fails, scrapeCryptoData rejects;
\* no record of that fetch is returned or saved, the save is not called, and
\* performScraping resolves with {success: false} and the zero result.
C36_OneBadElementFailsTheFetch ==
  [][\A run \in InFlight, resp \in ApiResponses :
       (Unmappable(resp) /\ FetchReturn(run, resp)) =>
         /\ scrapeCryptoData(resp, now).kind = "rejected"
         /\ inflight' = Finish(run)
         /\ store' = store
         /\ last'.op = "settled" /\ last'.fetch = "failed" /\ last'.saveCalls = 0
         /\ last'.ps.kind = "resolved"
         /\ ~last'.ps.value.success
         /\ last'.ps.value.result = ZeroResult]_vars
C36_Witness ==
  /\ last.op = "settled" /\ last.fetch = "failed"
  /\ last.ps.value.message[Len(last.ps.value.message)] = CannotRead
  /\ Len(store) = 2

(* ============================= Demo router ============================= *)
\* The demo router serves one module-level array, demoCryptoData; here it is `store`.
\* Its first five entries, with the prices in thousandths.
Demo(id, name, symbol, price, rank) ==
  [id |-> id, name |-> name, symbol |-> symbol, price |-> price, rank |-> rank,
   isActive |-> TRUE]
demoCryptoData ==
  << Demo(1, "Bitcoin", "BTC", 43250500, 1),
     Demo(2, "Ethereum", "ETH", 2650750, 2),
     Demo(3, "Binance Coin", "BNB", 315800, 3),
     Demo(4, "Cardano", "ADA", 485, 4),
     Demo(5, "Solana", "SOL", 98450, 5) >>

\* the query of a listing request: search text, numeric sort field, sort order
Searches == {"", "coin"}
SortFields == {"rank", "price"}
SortOrders == {"asc", "desc"}
Limits == {1, 3, 10}
\* name.toLowerCase().includes(search) || symbol.toLowerCase().includes(search)
includes(c, search) ==
  CASE search = "coin" -> c.symbol \in {"BTC", "BNB"}
    [] OTHER -> FALSE

\* Array.prototype.sort with the comparator of the route: ascending when
\* sortOrder === 'asc', descending otherwise
sort(arr, sortBy, sortOrder) ==
  SortSeq(arr, LAMBDA a, b : IF sortOrder = "asc" THEN a[sortBy] < b[sortBy]
                                                  ELSE a[sortBy] > b[sortBy])
slice(arr, from, to) == SubSeq(arr, from + 1, IF to < Len(arr) THEN to ELSE Len(arr))

Answer(op, status, data) ==
  [Nothing EXCEPT !.op = op, !.status = status, !.data = data]

\* router.get('/') (demo): without a search text filteredCrypto IS demoCryptoData,
\* and sort() sorts it in place; with one, filter() has made a copy
demoList(search, sortBy, sortOrder) ==
  /\ LET filtered == IF search # "" THEN SelectSeq(store, LAMBDA c : includes(c, search))
                                    ELSE store
         sorted == sort(filtered, sortBy, sortOrder)
     IN /\ store' = IF search # "" THEN store ELSE sorted
        /\ last' = Answer("list", 200, slice(sorted, 0, 20))
  /\ UNCHANGED <<sched, inflight, now, variant>>

\* router.get('/top') (demo)
demoTop(limit) ==
  /\ last' = Answer("top", 200, slice(store, 0, limit))
  /\ UNCHANGED <<sched, inflight, store, now, variant>>

\* router.get('/stats') (demo): topCrypto = demoCryptoData[0]
demoStats ==
  /\ last' = Answer("stats", 200, << store[1] >>)
  /\ UNCHANGED <<sched, inflight, store, now, variant>>

\* router.get('/:id') (demo)
demoGetById(id) ==
  /\ LET hit == {k \in DOMAIN store : store[k].id = id}
     IN last' = IF hit = {} THEN Answer("get", 404, <<>>)
                ELSE Answer("get", 200, << store[CHOOSE k \in hit : TRUE] >>)
  /\ UNCHANGED <<sched, inflight, store, now, variant>>

\* router.delete('/:id') (demo)
demoDelete(id) ==
  /\ LET hit == {k \in DOMAIN store : store[k].id = id}
     IN IF hit = {}
        THEN /\ last' = Answer("delete", 404, <<>>)
             /\ UNCHANGED store
        ELSE LET k == CHOOSE j \in hit : TRUE
             IN /\ store' = [store EXCEPT ![k].isActive = FALSE]
                /\ last' = Answer("delete", 200, << store'[k] >>)
  /\ UNCHANGED <<sched, inflight, now, variant>>

\* the ids a request may name: those of the dataset and one that is not there
DemoIds == 1..(Len(demoCryptoData) + 1)

InitDemo ==
  /\ isRunning = FALSE
  /\ jobs = <<>>
  /\ handles = <<>>
  /\ inflight = EmptyBag
  /\ store = demoCryptoData
  /\ now = 0
  /\ variant = "crypto"
  /\ last = Nothing

NextDemo ==
  \/ \E search \in Searches, sortBy \in SortFields, sortOrder \in SortOrders :
       demoList(search, sortBy, sortOrder)
  \/ \E limit \in Limits : demoTop(limit)
  \/ demoStats
  \/ \E id \in DemoIds : demoGetById(id)
  \/ \E id \in DemoIds : demoDelete(id)

SpecDemo == InitDemo /\ [][NextDemo]_vars

\* C37 (as claimed): on the demo router a listing request GET / leaves the shared
\* demo dataset unchanged, so after any sequence of GET / requests, with any sortBy
\* and sortOrder, GET /top answers the `limit` best-ranked entries (rank 1..limit)
\* and GET /stats reports the rank-1 entry (Bitcoin) as topCrypto.
C37_ListingLeavesDatasetUnchanged ==
  [][/\ \A search \in Searches, sortBy \in SortFields, sortOrder \in SortOrders :
          demoList(search, sortBy, sortOrder) => store' = store
     /\ \A limit \in Limits :
          demoTop(limit) => \A k \in DOMAIN last'.data : last'.data[k].rank = k
     /\ demoStats => last'.data[1].name = "Bitcoin"]_vars

(* ============================== Query layer ============================= *)
\* cryptoSchema.statics.getLatestPrices(limit): find({isActive: true}), newest first
\* (the entries of the model carry no rank), cut to limit
getLatestPrices(st, limit) ==
  slice(SortSeq(SelectSeq(st, LAMBDA d : d.isActive),
                LAMBDA a, b : a.timestamp > b.timestamp), 0, limit)

\* cryptoSchema.statics.getBySymbol(symbol): the candidates of
\* findOne({symbol: symbol.toUpperCase(), isActive: true}).sort({timestamp: -1})
getBySymbol(st, symbol) ==
  LET hit == {d \in DOMAIN st : st[d].symbol = toUpperCase(symbol) /\ st[d].isActive}
  IN {d \in hit : \A e \in hit : st[e].timestamp <= st[d].timestamp}

\* router.get('/latest')
latest(limit) ==
  /\ last' = Answer("latest", 200, getLatestPrices(store, limit))
  /\ UNCHANGED <<sched, inflight, store, now, variant>>

\* router.get('/symbol/:symbol')
bySymbol(symbol) ==
  /\ LET hit == getBySymbol(store, symbol)
     IN IF hit = {} THEN last' = Answer("symbol", 404, <<>>)
        ELSE \E d \in hit : last' = Answer("symbol", 200, << store[d] >>)
  /\ UNCHANGED <<sched, inflight, store, now, variant>>

\* router.get('/:id'): Crypto.findById(id) / Article.findById(id), no filter
getById(id) ==
  /\ last' = IF id \in DOMAIN store THEN Answer("get", 200, << store[id] >>)
             ELSE Answer("get", 404, <<>>)
  /\ UNCHANGED <<sched, inflight, store, now, variant>>

\* ---- Saves, deletions and reads ----
QuerySymbols == {"btc", "eth"}
NextQuery ==
  \/ AwaitedTrigger
  \/ \E run \in InFlight, resp \in SweepResponses : FetchReturn(run, resp)
  \/ \E run \in InFlight, ok \in BOOLEAN : FindReturn(run, ok)
  \/ \E run \in InFlight, ok \in BOOLEAN : WriteReturn(run, ok)
  \/ \E id \in 1..MaxStore : deleteById(id)
  \/ \E limit \in Limits : latest(limit)
  \/ \E symbol \in QuerySymbols : bySymbol(symbol)
  \/ \E id \in 1..MaxStore : getById(id)
  \/ \E d \in ClockSteps : AdvanceClock(d)

SpecQuery == InitStore /\ [][NextQuery]_vars

\* a read request has been answered
ReadStep ==
  \/ \E limit \in Limits : latest(limit)
  \/ \E symbol \in QuerySymbols : bySymbol(symbol)
  \/ \E id \in 1..MaxStore : getById(id)

\* C38 (as claimed): every read of the query layer filters on the active flag: after
\* a record has been soft-deleted or expired, no read (latest, by-symbol, GET /:id)
\* returns it until a later save reactivates it.
C38_ReadsReturnOnlyActive ==
  [][ReadStep => \A k \in DOMAIN last'.data : last'.data[k].isActive]_vars
====
